---- MODULE Spec2Model ----
(***************************************************************************)
(* Model of the sound editing tool (ksks2012/solid-meme).                  *)
(*                                                                         *)
(*   src/src/app.rs   SoundApp: the session, the two background jobs       *)
(*                    (detect_silence_background,                          *)
(*                    remove_all_silence_background) and update_processing *)
(*   src/src/main.rs  the single-file version of the tool, with the        *)
(*                    synchronous remove_silence                           *)
(*                                                                         *)
(* Sample indices are 0-based as in the source; TLA+ sequences are         *)
(* 1-based, so samples[i] of the source is samples[i + 1] here.            *)
(*                                                                         *)
(* f32 arithmetic: the amplitude of a frame is the rational                *)
(* (sum of |sample|) / (32767 * channels) and the threshold is a rational  *)
(* num/den; the comparison `frame_amplitude < threshold` is computed       *)
(* exactly by cross-multiplication.  Rounding of f32 is not modelled.      *)
(***************************************************************************)
EXTENDS Integers, Sequences, FiniteSets, TLC

\* ------------------------------------------------------------------ bounds
\* longest buffer, in samples, of the enumerated inputs
MaxLen == 5
\* number of jobs accepted in a behaviour of the job specification
MaxJobs == 2
\* number of files loaded in a behaviour of the job specification
MaxLoads == 2

\* ------------------------------------------------------- program constants
\* i16::MAX, the divisor of every normalisation
I16_MAX == 32767

\* ------------------------------------------------------------ input domains
\* Sample values: digital zero, a quiet non-zero sample, a loud negative one.
SampleValues == {0, 100, -20000}
\* channel counts of the WAV spec
ChannelCounts == {1, 2}
\* sample rates of the WAV spec (Hz); 1000 is the least rate at which
\* sample_rate / 1000 is not zero
SampleRates == {8, 10, 20, 1000}
\* silence_threshold, as a rational in the slider's range 0.0 ..= 0.1:
\* 0, 0.01 (the default) and 100/32767 (the amplitude of the quiet sample)
Thresholds ==
    { [num |-> 0, den |-> 1], [num |-> 1, den |-> 100], [num |-> 100, den |-> I16_MAX] }
\* min_silence_len (ms), in the slider's range 100 ..= 2000
MinSilenceLens == {100, 150}
\* min_silence_len (ms) as a parameter of main.rs remove_silence
MainMinSilenceLens == {1, 2}
\* the slider positions of the job specification
SliderThresholds == {[num |-> 1, den |-> 100]}
SliderMinSilenceLens == {100}

RECURSIVE SeqsUpTo(_, _)
\* every sequence over S of length at most n
SeqsUpTo(S, n) ==
    IF n = 0 THEN {<<>>}
    ELSE LET shorter == SeqsUpTo(S, n - 1)
         IN  shorter \cup {Append(s, x) : s \in {t \in shorter : Len(t) = n - 1}, x \in S}

\* The decoded files: the WAV decoder delivers whole frames only, so the
\* sample count is a multiple of the channel count.
Buffers(values, channels, n) == {s \in SeqsUpTo(values, n) : Len(s) % channels = 0}

\* Option<T>
Some(v) == [some |-> TRUE, value |-> v]
NoneOpt == [some |-> FALSE, value |-> <<>>]

\* ------------------------------------------------------------- the scan
Abs(x) == IF x < 0 THEN -x ELSE x

RECURSIVE frame_sum(_, _, _, _)
\* sum over ch in 0..channels-1, i + ch < total_samples, of |samples[i + ch]|
frame_sum(samples, i, ch, channels) ==
    IF ch >= channels THEN 0
    ELSE (IF i + ch < Len(samples) THEN Abs(samples[i + ch + 1]) ELSE 0)
         + frame_sum(samples, i, ch + 1, channels)

\* frame_amplitude < threshold, with
\* frame_amplitude = (sum of |sample| / i16::MAX) / channels
below_threshold(samples, i, channels, threshold) ==
    frame_sum(samples, i, 0, channels) * threshold.den
        < threshold.num * I16_MAX * channels

\* min_samples with the division by 1000 lost: milliseconds taken for seconds
min_samples_undivided(min_len, sample_rate) == min_len * sample_rate

\* min_len * sample_rate / 1000 (usize division)
min_samples(min_len, sample_rate) == (min_len * sample_rate) \div 1000

\* A job's captured inputs: the clone of samples_raw, the spec's channels and
\* sample_rate, silence_threshold and min_silence_len.
Job(samples, channels, sample_rate, threshold, min_len) ==
    [samples |-> samples, channels |-> channels, sample_rate |-> sample_rate,
     threshold |-> threshold, min_len |-> min_len]

\* ---------------------------------------- detect_silence_background: worker
\* the worker's locals before the loop
detect_locals == [silence_segments |-> <<>>, silence_count |-> 0, silence_start |-> 0]

\* one iteration of `for i in (0..total_samples).step_by(channels)`
detect_frame(st, i, job) ==
    IF below_threshold(job.samples, i, job.channels, job.threshold)
    THEN [st EXCEPT !.silence_start = IF st.silence_count = 0 THEN i ELSE @,
                    !.silence_count = @ + 1]
    ELSE IF st.silence_count > 0
    THEN [st EXCEPT !.silence_segments =
                        IF st.silence_count >= min_samples(job.min_len, job.sample_rate)
                        THEN Append(@, <<st.silence_start, i>>) ELSE @,
                    !.silence_count = 0]
    ELSE st

\* after the loop: the run that reaches the end of the buffer
detect_finish(st, job) ==
    IF st.silence_count >= min_samples(job.min_len, job.sample_rate)
    THEN Append(st.silence_segments, <<st.silence_start, Len(job.samples)>>)
    ELSE st.silence_segments

RECURSIVE detect_loop(_, _, _)
detect_loop(st, i, job) ==
    IF i >= Len(job.samples) THEN st
    ELSE detect_loop(detect_frame(st, i, job), i + job.channels, job)

\* the value the detect worker sends on result_tx: (silence_segments, None)
detect_worker(job) ==
    [silence_segments |-> detect_finish(detect_loop(detect_locals, 0, job), job),
     result_samples |-> NoneOpt]

\* ------------------------------------ remove_all_silence_background: worker
remove_locals ==
    [silence_segments |-> <<>>, silence_count |-> 0, silence_start |-> 0,
     result_samples |-> <<>>, last_end |-> 0]

\* for ch in 0..channels { if j + ch < total_samples { push(samples[j + ch]) } }
\* the samples of the frame at j that exist
copy_channels(samples, j, channels) ==
    [k \in 1 .. (IF j + channels <= Len(samples) THEN channels
                 ELSE IF j < Len(samples) THEN Len(samples) - j ELSE 0)
        |-> samples[j + k]]

\* for j in (from..to).step_by(channels) { copy the frame at j }:
\* the frames at from, from + channels, ... below `to`, so
\* ceil((to - from) / channels) frames, cut at the end of the buffer
copy_frames(samples, from, to, channels) ==
    IF from >= to THEN <<>>
    ELSE LET frames == (to - from + channels - 1) \div channels
             stop   == IF from + frames * channels <= Len(samples)
                       THEN from + frames * channels ELSE Len(samples)
         IN  [k \in 1 .. (IF stop > from THEN stop - from ELSE 0) |-> samples[from + k]]

\* remove_frame with `silence_start = i` on every quiet frame, the guard
\* `if silence_count == 0` lost: only the last frame of a run is cut out
remove_frame_start_unguarded(st, i, job) ==
    IF below_threshold(job.samples, i, job.channels, job.threshold)
    THEN [st EXCEPT !.silence_start = i, !.silence_count = @ + 1]
    ELSE IF st.silence_count > 0
    THEN IF st.silence_count >= min_samples(job.min_len, job.sample_rate)
         THEN [st EXCEPT !.silence_segments = Append(@, <<st.silence_start, i>>),
                         !.result_samples =
                             @ \o copy_frames(job.samples, st.last_end, st.silence_start,
                                              job.channels),
                         !.last_end = i,
                         !.silence_count = 0]
         ELSE [st EXCEPT !.silence_count = 0]
    ELSE st

\* one iteration of the scan loop of the remove worker
remove_frame(st, i, job) ==
    IF below_threshold(job.samples, i, job.channels, job.threshold)
    THEN [st EXCEPT !.silence_start = IF st.silence_count = 0 THEN i ELSE @,
                    !.silence_count = @ + 1]
    ELSE IF st.silence_count > 0
    THEN IF st.silence_count >= min_samples(job.min_len, job.sample_rate)
         THEN [st EXCEPT !.silence_segments = Append(@, <<st.silence_start, i>>),
                         !.result_samples =
                             @ \o copy_frames(job.samples, st.last_end, st.silence_start,
                                              job.channels),
                         !.last_end = i,
                         !.silence_count = 0]
         ELSE [st EXCEPT !.silence_count = 0]
    ELSE st

\* remove_finish with the final copy starting at 0 instead of last_end
remove_finish_copy_from_zero(st, job) ==
    [silence_segments |->
         IF st.silence_count >= min_samples(job.min_len, job.sample_rate)
         THEN Append(st.silence_segments, <<st.silence_start, Len(job.samples)>>)
         ELSE st.silence_segments,
     result_samples |->
         Some(st.result_samples
                  \o copy_frames(job.samples, 0, Len(job.samples), job.channels))]

\* after the loop: the trailing run is recorded, then everything from
\* last_end to the end of the buffer is copied
remove_finish(st, job) ==
    [silence_segments |->
         IF st.silence_count >= min_samples(job.min_len, job.sample_rate)
         THEN Append(st.silence_segments, <<st.silence_start, Len(job.samples)>>)
         ELSE st.silence_segments,
     result_samples |->
         Some(st.result_samples
                  \o copy_frames(job.samples, st.last_end, Len(job.samples), job.channels))]

RECURSIVE remove_loop(_, _, _)
remove_loop(st, i, job) ==
    IF i >= Len(job.samples) THEN st
    ELSE remove_loop(remove_frame(st, i, job), i + job.channels, job)

\* the value the remove worker sends on result_tx:
\* (silence_segments, Some(result_samples))
remove_worker(job) == remove_finish(remove_loop(remove_locals, 0, job), job)

\* ----------------------------------------------- main.rs: remove_silence
\* min_silence_len / (sample_rate / 1000); the division panics when
\* sample_rate / 1000 is zero
main_min_frames(min_len, sample_rate) == min_len \div (sample_rate \div 1000)

\* for _ in 0..silence_count { for _ in 0..channels { push(0) } }, n pushes
zeros(n) == [k \in 1 .. n |-> 0]

main_locals == [result_samples |-> <<>>, silence_count |-> 0, panicked |-> FALSE]

\* one iteration of the loop of remove_silence; the read of
\* processed_samples_raw[i + ch] panics past the end of the buffer, and the
\* division by sample_rate / 1000 panics when it is zero
remove_silence_frame(st, i, job) ==
    IF st.panicked THEN st
    ELSE IF i + job.channels > Len(job.samples) THEN [st EXCEPT !.panicked = TRUE]
    ELSE IF below_threshold(job.samples, i, job.channels, job.threshold)
    THEN [st EXCEPT !.silence_count = @ + 1]
    ELSE IF job.sample_rate \div 1000 = 0 THEN [st EXCEPT !.panicked = TRUE]
    ELSE [st EXCEPT
            !.result_samples =
                (IF st.silence_count < main_min_frames(job.min_len, job.sample_rate)
                 THEN @ \o zeros(st.silence_count * job.channels) ELSE @)
                \o copy_channels(job.samples, i, job.channels),
            !.silence_count = 0]

RECURSIVE remove_silence_loop(_, _, _)
remove_silence_loop(st, i, job) ==
    IF i >= Len(job.samples) THEN st
    ELSE remove_silence_loop(remove_silence_frame(st, i, job), i + job.channels, job)

\* the new processed_samples_raw, or a panic
remove_silence(job) ==
    LET st == remove_silence_loop(main_locals, 0, job)
    IN  [panicked |-> st.panicked,
         result_samples |-> IF st.panicked THEN NoneOpt ELSE Some(st.result_samples)]


\* =================================================================== state
VARIABLES
    \* the segmenter applied to enumerated inputs
    seg_op,     \* the operation: "detect", "remove" (app.rs), "remove_silence" (main.rs)
    seg_in,     \* the Job the operation is applied to
    seg_out,    \* what it returned, NoOutput before the call
    seg_op2,    \* the operation applied to the returned buffer, "none" before it
    seg_out2    \* what that second operation returned

seg_vars == <<seg_op, seg_in, seg_out, seg_op2, seg_out2>>

VARIABLES
    \* one worker run frame by frame on a given job
    run_mode,   \* "detect" or "remove"
    run_i,      \* the loop variable i of the scan
    run_st,     \* the worker's locals
    run_out     \* the value sent on result_tx, NoOutput before the send

run_vars == <<run_mode, run_i, run_st, run_out>>

VARIABLES
    \* SoundApp (app.rs)
    raw_waveform,         \* [samples_raw, silence_segments]
    processed_waveform,   \* [samples_raw, silence_segments]
    spec,                 \* Option<WavSpec>: [channels, sample_rate]
    file_loaded,
    processed_ready,
    silence_threshold,
    min_silence_len,
    is_processing,
    processing_progress,  \* i / total_samples as the pair [num, den]
    progress_rx,          \* Option<Receiver<f32>>: the id of its channel, 0 for None
    result_rx,            \* Option<Receiver<..>>: the id of its channel, 0 for None
    \* the spawned worker threads and the channels they send on; the worker of the
    \* k-th accepted job sends on the channels with id k
    workers,
    \* the UI thread: "idle" between handlers, "result" inside update_processing
    \* between the progress loop and the try_recv on result_rx
    ui_pc,
    \* how the last handler call ended, when it was a job submission:
    \* "rejected" (the early return), "spawned", and "none" after any other handler
    submitted,
    \* number of files loaded so far
    loads

app_vars ==
    <<raw_waveform, processed_waveform, spec, file_loaded, processed_ready,
      silence_threshold, min_silence_len, is_processing, processing_progress,
      progress_rx, result_rx>>

job_vars == <<app_vars, workers, ui_pc, submitted, loads>>

VARIABLES
    \* playback (app.rs with audio.rs, and the single-file program main.rs)
    play_variant,     \* "app": app.rs and audio.rs; "main": main.rs
    playing_stream,   \* the Option<Arc<cpal::Stream>> fields: the id of the
                      \* stream held, 0 for None; fields raw and processed are
                      \* the two WaveformData of app.rs, field main is the
                      \* single playing_stream of main.rs
    current_idx,      \* the two cursors: [raw, processed]
    streams,          \* the output streams built so far, dropped ones included
    play_pc           \* the UI thread's position inside play_samples

play_vars == <<play_variant, playing_stream, current_idx, streams, play_pc>>

vars == <<seg_vars, run_vars, job_vars, play_vars>>

\* no stream has been built: WaveformData::new() gives current_idx 0 and
\* playing_stream None
NoPlayback ==
    /\ playing_stream = [raw |-> 0, processed |-> 0, main |-> 0]
    /\ current_idx = [raw |-> 0, processed |-> 0]
    /\ streams = <<>>
    /\ play_pc = [at |-> "idle"]

PlayIdle == play_variant = "app" /\ NoPlayback

\* ------------------------------------------- specification of the segmenter
SegOps == {"detect", "remove", "remove_silence"}

SegJobs(op) ==
    UNION { { Job(s, c, r, t, m) :
                s \in Buffers(SampleValues, c, MaxLen), r \in SampleRates, t \in Thresholds,
                m \in IF op = "remove_silence" THEN MainMinSilenceLens
                      ELSE MinSilenceLens }
            : c \in ChannelCounts }

NoOutput ==
    [called |-> FALSE, silence_segments |-> <<>>, result_samples |-> NoneOpt,
     panicked |-> FALSE]

Returned(r) == [called |-> TRUE] @@ r @@ NoOutput

\* WaveformData::new()
WaveformData_new == [samples_raw |-> <<>>, silence_segments |-> <<>>]

\* WaveformData::from_samples(samples_raw, ..)
WaveformData_from_samples(samples_raw) ==
    [samples_raw |-> samples_raw, silence_segments |-> <<>>]

\* SoundApp::new(), no worker spawned
SoundApp_new ==
    /\ raw_waveform = WaveformData_new
    /\ processed_waveform = WaveformData_new
    /\ spec = NoneOpt
    /\ file_loaded = FALSE
    /\ processed_ready = FALSE
    /\ silence_threshold = [num |-> 1, den |-> 100]
    /\ min_silence_len = 1000
    /\ is_processing = FALSE
    /\ processing_progress = [num |-> 0, den |-> 1]
    /\ progress_rx = 0
    /\ result_rx = 0
    /\ workers = <<>>
    /\ ui_pc = "idle"
    /\ submitted = "none"
    /\ loads = 0
    /\ PlayIdle

\* no worker is run frame by frame
RunIdle ==
    /\ run_mode = "none"
    /\ run_i = 0
    /\ run_st = detect_locals
    /\ run_out = NoOutput

SegInit ==
    /\ seg_op \in SegOps
    /\ seg_in \in SegJobs(seg_op)
    /\ seg_out = NoOutput
    /\ seg_op2 = "none"
    /\ seg_out2 = NoOutput
    /\ RunIdle
    /\ SoundApp_new

\* the detect worker, run to completion on seg_in
SegDetect ==
    /\ ~seg_out.called /\ seg_op = "detect"
    /\ seg_out' = Returned(detect_worker(seg_in))
    /\ UNCHANGED <<seg_op, seg_in, seg_op2, seg_out2, run_vars, job_vars, play_vars>>

\* the remove worker, run to completion on seg_in
SegRemove ==
    /\ ~seg_out.called /\ seg_op = "remove"
    /\ seg_out' = Returned(remove_worker(seg_in))
    /\ UNCHANGED <<seg_op, seg_in, seg_op2, seg_out2, run_vars, job_vars, play_vars>>

\* main.rs remove_silence on seg_in
SegRemoveSilence ==
    /\ ~seg_out.called /\ seg_op = "remove_silence"
    /\ seg_out' = Returned(remove_silence(seg_in))
    /\ UNCHANGED <<seg_op, seg_in, seg_op2, seg_out2, run_vars, job_vars, play_vars>>

\* the job of the second operation: the parameters of the first, the buffer it returned
SecondJob == [seg_in EXCEPT !.samples = seg_out.result_samples.value]

\* the same removal once more, on the buffer the first call returned
SegRemoveAgain ==
    /\ seg_out.called /\ seg_op2 = "none"
    /\ seg_op \in {"remove", "remove_silence"}
    /\ seg_out.result_samples.some
    /\ seg_op2' = seg_op
    /\ seg_out2' = Returned(IF seg_op = "remove" THEN remove_worker(SecondJob)
                            ELSE remove_silence(SecondJob))
    /\ UNCHANGED <<seg_op, seg_in, seg_out, run_vars, job_vars, play_vars>>

\* the detect worker on the buffer the remove worker returned
SegDetectOutput ==
    /\ seg_out.called /\ seg_op2 = "none"
    /\ seg_op = "remove"
    /\ seg_out.result_samples.some
    /\ seg_op2' = "detect"
    /\ seg_out2' = Returned(detect_worker(SecondJob))
    /\ UNCHANGED <<seg_op, seg_in, seg_out, run_vars, job_vars, play_vars>>

SegNext == SegDetect \/ SegRemove \/ SegRemoveSilence \/ SegRemoveAgain \/ SegDetectOutput

SpecSeg == SegInit /\ [][SegNext]_vars

\* ============================================== properties of the segmenter
\* The buffer as frames, stated independently of the scan.
NumFrames(job) == Len(job.samples) \div job.channels

\* |sample| of channel c of frame f
Magnitude(job, f, c) ==
    LET v == job.samples[f * job.channels + c + 1] IN IF v < 0 THEN 0 - v ELSE v

RECURSIVE MagnitudeSum(_, _, _)
MagnitudeSum(job, f, c) ==
    IF c = 0 THEN 0 ELSE Magnitude(job, f, c - 1) + MagnitudeSum(job, f, c - 1)

\* mean over the channels of |sample| / 32767 is strictly below the threshold
QuietFrame(job, f) ==
    MagnitudeSum(job, f, job.channels) * job.threshold.den
        < job.threshold.num * 32767 * job.channels

\* the minimum length of a removable run, in frames
MinFrames(job) == (job.min_len * job.sample_rate) \div 1000

\* maximal runs [a, b) of consecutive quiet frames, as pairs of frame indices
MaximalRuns(job) ==
    { r \in (0 .. NumFrames(job)) \X (0 .. NumFrames(job)) :
        /\ r[1] < r[2]
        /\ \A f \in r[1] .. r[2] - 1 : QuietFrame(job, f)
        /\ r[1] = 0 \/ ~QuietFrame(job, r[1] - 1)
        /\ r[2] = NumFrames(job) \/ ~QuietFrame(job, r[2]) }

RunLen(r) == r[2] - r[1]

\* a run of frames as a half-open pair of raw sample indices
AsSamples(job, r) == <<r[1] * job.channels, r[2] * job.channels>>

QualifyingRuns(job) == {r \in MaximalRuns(job) : RunLen(r) >= MinFrames(job)}

Range(seq) == {seq[k] : k \in DOMAIN seq}

\* the list is in buffer order: each start is below the next start
InBufferOrder(segs) ==
    \A k \in DOMAIN segs : k + 1 \in DOMAIN segs => segs[k][1] < segs[k + 1][1]

\* segs lists exactly the intervals of the set S, each once, in buffer order
ListsExactly(segs, S) ==
    /\ Range(segs) = S
    /\ Len(segs) = Cardinality(S)
    /\ InBufferOrder(segs)

RECURSIVE Surviving(_, _, _)
\* the samples of `samples` from 0-based position p on that lie in no interval
\* of the set S, in their original order
Surviving(samples, p, S) ==
    IF p >= Len(samples) THEN <<>>
    ELSE (IF \E iv \in S : iv[1] <= p /\ p < iv[2] THEN <<>> ELSE <<samples[p + 1]>>)
         \o Surviving(samples, p + 1, S)

RECURSIVE IsSubsequence(_, _)
\* s is obtained from t by deleting elements
IsSubsequence(s, t) ==
    IF s = <<>> THEN TRUE
    ELSE IF t = <<>> THEN FALSE
    ELSE IF Head(s) = Head(t) THEN IsSubsequence(Tail(s), Tail(t))
    ELSE IsSubsequence(s, Tail(t))

DetectReturned == seg_out.called /\ seg_op = "detect"
RemoveReturned == seg_out.called /\ seg_op = "remove" /\ seg_out.result_samples.some
RemoveSilenceReturned ==
    seg_out.called /\ seg_op = "remove_silence" /\ seg_out.result_samples.some

\* C1: detect returns exactly the maximal runs of quiet frames (mean |sample|/32767
\* strictly below the threshold) of at least floor(D * sample_rate / 1000) frames,
\* as half-open pairs of raw sample indices in buffer order; a frame at the
\* threshold counts as sound.
C1_DetectReturnsQualifyingRuns ==
    DetectReturned =>
        ListsExactly(seg_out.silence_segments,
                     {AsSamples(seg_in, r) : r \in QualifyingRuns(seg_in)})

\* C2: the positions missing from the buffer remove returns are exactly the union
\* of the intervals detect returns for the same input (which is the interval
\* list remove returns), the surviving samples in their original order.  Stated
\* for the inputs whose minimum length floor(D * sample_rate / 1000) is at least
\* one frame.
C2_RemoveDeletesDetected ==
    (RemoveReturned /\ MinFrames(seg_in) >= 1) =>
        LET detected == detect_worker(seg_in).silence_segments
        IN  /\ seg_out.silence_segments = detected
            /\ seg_out.result_samples.value
                   = Surviving(seg_in.samples, 0, Range(detected))

\* the frames remove has to keep: every frame outside the qualifying runs
KeptFrames(job) == Surviving(job.samples, 0, {AsSamples(job, r) : r \in QualifyingRuns(job)})

\* C3: remove keeps every quiet run shorter than the minimum length, and every
\* frame at or above the threshold, with its original sample values, in order:
\* the frames outside the qualifying runs appear in the output unchanged.
C3_ShortRunsVerbatim ==
    (RemoveReturned \/ RemoveSilenceReturned) =>
        IsSubsequence(KeptFrames(seg_in), seg_out.result_samples.value)

\* C4: detect on the buffer remove returned, with the same threshold and D,
\* returns no interval.  Stated for the inputs whose minimum length
\* floor(D * sample_rate / 1000) is at least one frame.
C4_NoResidualSilence ==
    (seg_op = "remove" /\ seg_op2 = "detect" /\ MinFrames(seg_in) >= 1) =>
        seg_out2.silence_segments = <<>>

\* C5: remove applied to the buffer remove returned, with the same parameters,
\* returns that buffer.
C5_RemoveIdempotent ==
    (seg_op2 \in {"remove", "remove_silence"} /\ seg_out2.result_samples.some) =>
        seg_out2.result_samples.value = seg_out.result_samples.value

\* a removal (of runs of at least one frame) that shortened the buffer and left
\* a short quiet run inside it was repeated
C5_Witness ==
    /\ seg_op2 = "remove" /\ seg_out2.result_samples.some
    /\ Len(seg_out.result_samples.value) < Len(seg_in.samples)
    /\ MinFrames(seg_in) >= 1
    /\ \E r \in MaximalRuns(SecondJob) : r[2] < NumFrames(SecondJob)

RunsOfLength(job, n) == {AsSamples(job, r) : r \in {q \in MaximalRuns(job) : RunLen(q) = n}}

\* C6: with N = floor(D * sample_rate / 1000), a quiet run of exactly N frames is
\* reported by detect and removed by remove, and a quiet run of N - 1 frames is
\* neither reported nor removed, wherever the run lies: the buffer remove returns
\* is the input without a set of runs that holds every run of N frames and no
\* run of N - 1 frames.
C6_LengthBoundary ==
    LET exact == RunsOfLength(seg_in, MinFrames(seg_in))
        short == RunsOfLength(seg_in, MinFrames(seg_in) - 1)
        all   == {AsSamples(seg_in, r) : r \in MaximalRuns(seg_in)}
    IN  /\ DetectReturned =>
            /\ exact \subseteq Range(seg_out.silence_segments)
            /\ short \cap Range(seg_out.silence_segments) = {}
        /\ RemoveReturned =>
            \E removed \in SUBSET all :
                /\ exact \subseteq removed
                /\ short \cap removed = {}
                /\ seg_out.result_samples.value = Surviving(seg_in.samples, 0, removed)

\* C7: the interval list detect or remove returns is strictly increasing and
\* non-overlapping (start < end, end <= next start), lies within
\* [0, buffer length], and every bound is a multiple of channel_count.
C7_IntervalsWellFormed ==
    (DetectReturned \/ RemoveReturned) =>
        LET segs == seg_out.silence_segments
        IN  /\ \A k \in DOMAIN segs :
                /\ 0 <= segs[k][1] /\ segs[k][1] < segs[k][2]
                /\ segs[k][2] <= Len(seg_in.samples)
                /\ segs[k][1] % seg_in.channels = 0
                /\ segs[k][2] % seg_in.channels = 0
            /\ \A k \in DOMAIN segs :
                k + 1 \in DOMAIN segs => segs[k][2] <= segs[k + 1][1]

\* C8: the buffer remove returns is no longer than the input buffer.
C8_RemoveNeverLonger ==
    (RemoveReturned \/ RemoveSilenceReturned) =>
        Len(seg_out.result_samples.value) <= Len(seg_in.samples)

\* remove returned a buffer shorter than a non-empty input
C8_Witness ==
    /\ RemoveReturned
    /\ Len(seg_out.result_samples.value) < Len(seg_in.samples)
    /\ seg_out.silence_segments # <<>>


\* ------------------------- a worker run frame by frame on the 3-second buffer
\* mono, 8000 Hz: 8000 frames at amplitude 0.5 (|sample| = 16384), 12000 frames
\* at amplitude 0.001 (|sample| = 33), 4000 frames at amplitude 0.5; the
\* session's default threshold 0.01 and minimum length 1000 ms
ScenarioSamples ==
    [k \in 1 .. 24000 |->
        IF k <= 8000 \/ k > 20000 THEN (IF k % 2 = 0 THEN 16384 ELSE -16384)
        ELSE (IF k % 2 = 0 THEN 33 ELSE -33)]

ScenarioJob == Job(ScenarioSamples, 1, 8000, [num |-> 1, den |-> 100], 1000)

ScenarioIdle ==
    /\ seg_op = "none"
    /\ seg_in = Job(<<>>, 1, 8000, [num |-> 1, den |-> 100], 1000)
    /\ seg_out = NoOutput
    /\ seg_op2 = "none"
    /\ seg_out2 = NoOutput

ScenarioInit ==
    /\ ScenarioIdle
    /\ run_mode \in {"detect", "remove"}
    /\ run_i = 0
    /\ run_st = IF run_mode = "detect" THEN detect_locals ELSE remove_locals
    /\ run_out = NoOutput
    /\ SoundApp_new

\* one iteration of the scan loop of the worker
RunFrame ==
    /\ ~run_out.called
    /\ run_i < Len(ScenarioJob.samples)
    /\ run_st' = IF run_mode = "detect" THEN detect_frame(run_st, run_i, ScenarioJob)
                 ELSE remove_frame(run_st, run_i, ScenarioJob)
    /\ run_i' = run_i + ScenarioJob.channels
    /\ UNCHANGED <<run_mode, run_out, seg_vars, job_vars, play_vars>>

\* the code after the loop, up to the send of the result
RunFinish ==
    /\ ~run_out.called
    /\ run_i >= Len(ScenarioJob.samples)
    /\ run_out' = Returned(IF run_mode = "detect"
                           THEN [silence_segments |-> detect_finish(run_st, ScenarioJob),
                                 result_samples |-> NoneOpt]
                           ELSE remove_finish(run_st, ScenarioJob))
    /\ UNCHANGED <<run_mode, run_i, run_st, seg_vars, job_vars, play_vars>>

ScenarioNext == RunFrame \/ RunFinish

SpecScenario == ScenarioInit /\ [][ScenarioNext]_vars

\* C9: on the mono 8000 Hz buffer of 8000 loud, 12000 near-silent and 4000 loud
\* frames, with threshold 0.01 and minimum length 1000 ms, detect returns exactly
\* the interval [8000, 20000) and remove returns the 12000-frame buffer made of
\* the first 8000 frames followed by the last 4000 frames.
C9_Scenario ==
    run_out.called =>
        /\ run_out.silence_segments = <<<<8000, 20000>>>>
        /\ run_mode = "remove" =>
            /\ Len(run_out.result_samples.value) = 12000
            /\ run_out.result_samples.value
                   = SubSeq(ScenarioSamples, 1, 8000) \o SubSeq(ScenarioSamples, 20001, 24000)

\* the remove worker has sent its result for the scenario buffer
C9_Witness ==
    /\ run_out.called /\ run_mode = "remove"
    /\ run_i = 24000
    /\ run_out.result_samples.some


\* ======================================== the session and its background jobs
\* the files the dialog can deliver, decoded (10 Hz, so that 100 ms is one
\* frame): a mono file with a quiet frame between loud ones, a stereo file that
\* ends in a quiet frame, and a mono file of one loud frame
Files ==
    { [samples |-> <<-20000, 100, -20000>>, channels |-> 1, sample_rate |-> 10],
      [samples |-> <<-20000, -20000, 0, 100>>, channels |-> 2, sample_rate |-> 10],
      [samples |-> <<-20000>>, channels |-> 1, sample_rate |-> 10] }

JobInit ==
    /\ SoundApp_new
    /\ RunIdle
    /\ ScenarioIdle

\* the session's two WaveformData are replaced by new ones: the streams the
\* old ones held are dropped, the new ones hold none
drop_held(strs) ==
    [k \in DOMAIN strs |->
        [strs[k] EXCEPT !.state = IF k \in {playing_stream.raw, playing_stream.processed}
                                  THEN "dropped" ELSE @]]

\* load_file, a file picked and opened; WaveformData::from_samples gives each
\* waveform a new cursor at 0 and no stream
load_file(f) ==
    /\ ui_pc = "idle" /\ play_pc.at = "idle"
    /\ streams' = drop_held(streams)
    /\ playing_stream' = [playing_stream EXCEPT !.raw = 0, !.processed = 0]
    /\ current_idx' = [raw |-> 0, processed |-> 0]
    /\ loads < MaxLoads
    /\ raw_waveform' = WaveformData_from_samples(f.samples)
    /\ processed_waveform' = WaveformData_from_samples(f.samples)
    /\ spec' = Some([channels |-> f.channels, sample_rate |-> f.sample_rate])
    /\ file_loaded' = TRUE
    /\ processed_ready' = FALSE
    /\ is_processing' = FALSE
    /\ processing_progress' = [num |-> 0, den |-> 1]
    /\ loads' = loads + 1
    /\ submitted' = "none"
    /\ UNCHANGED <<silence_threshold, min_silence_len, progress_rx, result_rx,
                   workers, ui_pc, seg_vars, run_vars, play_variant, play_pc>>

\* load_file, the dialog cancelled or WavReader::open failing
load_file_none ==
    /\ ui_pc = "idle" /\ play_pc.at = "idle"
    /\ submitted' = "none"
    /\ UNCHANGED <<app_vars, workers, ui_pc, loads, seg_vars, run_vars,
                   play_vars>>

\* the two sliders of draw_ui
set_sliders(threshold, min_len) ==
    /\ ui_pc = "idle" /\ play_pc.at = "idle"
    /\ silence_threshold' = threshold
    /\ min_silence_len' = min_len
    /\ submitted' = "none"
    /\ UNCHANGED <<raw_waveform, processed_waveform, spec, file_loaded, processed_ready,
                   is_processing, processing_progress, progress_rx, result_rx,
                   workers, ui_pc, loads, seg_vars, run_vars,
                   play_vars>>

\* the early return without the test of is_processing
job_rejected_ignoring_busy == ~file_loaded \/ ~spec.some

\* the early return of detect_silence_background and remove_all_silence_background
job_rejected == is_processing \/ ~file_loaded \/ ~spec.some

\* the thread spawned by a job: its captured inputs, its locals, and the two
\* channels it sends on; applied counts how many times update_processing has
\* taken a result of this thread from result_rx and applied it, source keeps
\* the samples the thread was given (self.raw_waveform.samples_raw.clone())
new_worker(mode) ==
    [mode |-> mode,
     job |-> Job(raw_waveform.samples_raw, spec.value.channels, spec.value.sample_rate,
                 silence_threshold, min_silence_len),
     i |-> 0,
     st |-> IF mode = "detect" THEN detect_locals @@ remove_locals ELSE remove_locals,
     pc |-> "scan",
     progress_q |-> <<>>,
     result_q |-> <<>>,
     applied |-> 0,
     source |-> raw_waveform.samples_raw]

\* the session drops the receivers it holds (they are overwritten, or set to
\* None): what is queued on their channels is lost
drop_receivers(ws) ==
    [k \in DOMAIN ws |->
        [ws[k] EXCEPT !.progress_q = IF k = progress_rx THEN <<>> ELSE @,
                      !.result_q = IF k = result_rx THEN <<>> ELSE @]]

\* the handler of either job up to thread::spawn
submit_job(mode) ==
    /\ ui_pc = "idle" /\ play_pc.at = "idle"
    /\ IF job_rejected
       THEN /\ submitted' = "rejected"
            /\ UNCHANGED <<app_vars, workers>>
       ELSE /\ Len(workers) < MaxJobs
            /\ is_processing' = TRUE
            /\ processing_progress' = [num |-> 0, den |-> 1]
            /\ workers' = Append(drop_receivers(workers), new_worker(mode))
            /\ progress_rx' = Len(workers) + 1
            /\ result_rx' = Len(workers) + 1
            /\ submitted' = "spawned"
            /\ UNCHANGED <<raw_waveform, processed_waveform, spec, file_loaded,
                           processed_ready, silence_threshold, min_silence_len>>
    /\ UNCHANGED <<ui_pc, loads, seg_vars, run_vars,
                   play_vars>>

detect_silence_background == submit_job("detect")

remove_all_silence_background == submit_job("remove")

\* tx.send(v): the value is queued while the receiver exists, and the send
\* fails (ignored) once the session has dropped or replaced the receiver
send(q, v, receiver_alive) == IF receiver_alive THEN Append(q, v) ELSE q

\* one iteration of the scan loop of worker k, with its progress_tx.send
worker_frame(k) ==
    LET w == workers[k] IN
    /\ w.pc = "scan"
    /\ w.i < Len(w.job.samples)
    /\ workers' =
         [workers EXCEPT ![k] =
            [w EXCEPT !.st = IF w.mode = "detect"
                             THEN detect_frame(w.st, w.i, w.job)
                             ELSE remove_frame(w.st, w.i, w.job),
                      !.progress_q = send(@, [num |-> w.i, den |-> Len(w.job.samples)],
                                          progress_rx = k),
                      !.i = @ + w.job.channels]]
    /\ UNCHANGED <<app_vars, ui_pc, submitted, loads, seg_vars, run_vars,
                   play_vars>>

\* a thread that has returned: its captured inputs and locals are dropped
exited(w) ==
    [w EXCEPT !.job = Job(<<>>, 1, 0, [num |-> 0, den |-> 1], 0),
              !.st = remove_locals, !.i = 0, !.pc = "done"]

\* a detect result that carries the samples it scanned
detect_result_with_samples(st, job) ==
    [silence_segments |-> detect_finish(st, job), result_samples |-> Some(job.samples)]

\* what the detect worker sends on result_tx: the intervals and None
detect_result(st, job) ==
    [silence_segments |-> detect_finish(st, job), result_samples |-> NoneOpt]

\* the code of worker k after the loop, with its result_tx.send; the thread ends
worker_finish(k) ==
    LET w == workers[k] IN
    /\ w.pc = "scan"
    /\ w.i >= Len(w.job.samples)
    /\ workers' =
         [workers EXCEPT ![k] =
            [exited(w) EXCEPT
                !.result_q =
                    send(@, IF w.mode = "detect"
                            THEN detect_result(w.st, w.job)
                            ELSE remove_finish(w.st, w.job),
                         result_rx = k)]]
    /\ UNCHANGED <<app_vars, ui_pc, submitted, loads, seg_vars, run_vars,
                   play_vars>>

\* rx.recv() returns only once a value is queued: it waits for the sender
recv_returns(q) == q # <<>>

\* rx.try_recv() returns at once whatever the channel holds: Ok(v) when a value
\* is queued, Err otherwise (channel empty, or sender gone)
try_recv_returns(q) == TRUE

\* update_processing, the loop on progress_rx: every queued value is received,
\* the last one stays in processing_progress
update_processing_progress ==
    /\ ui_pc = "idle" /\ play_pc.at = "idle"
    /\ ui_pc' = "result"
    /\ submitted' = "none"
    /\ progress_rx # 0 => try_recv_returns(workers[progress_rx].progress_q)
    /\ IF progress_rx # 0 /\ workers[progress_rx].progress_q # <<>>
       THEN /\ processing_progress' =
                  workers[progress_rx].progress_q[Len(workers[progress_rx].progress_q)]
            /\ workers' = [workers EXCEPT ![progress_rx].progress_q = <<>>]
       ELSE UNCHANGED <<processing_progress, workers>>
    /\ UNCHANGED <<raw_waveform, processed_waveform, spec, file_loaded, processed_ready,
                   silence_threshold, min_silence_len, is_processing, progress_rx,
                   result_rx, loads, seg_vars, run_vars,
                   play_vars>>

\* an assignment of the intervals that truncates the samples to the first interval
store_segments_and_truncate(w, segs) ==
    [w EXCEPT !.silence_segments = segs,
              !.samples_raw = IF segs = <<>> THEN @ ELSE SubSeq(@, 1, segs[1][1])]

\* self.raw_waveform.silence_segments = silence_segments
store_segments(w, segs) == [w EXCEPT !.silence_segments = segs]

\* update_processing, the try_recv on result_rx and the application of the result
update_processing_result ==
    /\ ui_pc = "result"
    /\ ui_pc' = "idle"
    /\ result_rx # 0 => try_recv_returns(workers[result_rx].result_q)
    /\ IF result_rx # 0 /\ workers[result_rx].result_q # <<>>
       THEN LET r == Head(workers[result_rx].result_q) IN
            /\ raw_waveform' = store_segments(raw_waveform, r.silence_segments)
            /\ IF r.result_samples.some
               THEN /\ processed_waveform' =
                          [processed_waveform EXCEPT !.samples_raw = r.result_samples.value]
                    /\ processed_ready' = TRUE
               ELSE UNCHANGED <<processed_waveform, processed_ready>>
            /\ is_processing' = FALSE
            /\ progress_rx' = 0
            /\ result_rx' = 0
            /\ workers' = [drop_receivers(workers) EXCEPT ![result_rx].applied = @ + 1]
       ELSE UNCHANGED <<raw_waveform, processed_waveform, processed_ready,
                       is_processing, progress_rx, result_rx, workers>>
    /\ UNCHANGED <<spec, file_loaded, silence_threshold, min_silence_len,
                   processing_progress, submitted, loads, seg_vars, run_vars,
                   play_vars>>

JobNext ==
    \/ \E f \in Files : load_file(f)
    \/ load_file_none
    \/ \E t \in SliderThresholds, m \in SliderMinSilenceLens : set_sliders(t, m)
    \/ detect_silence_background
    \/ remove_all_silence_background
    \/ \E k \in DOMAIN workers : worker_frame(k)
    \/ \E k \in DOMAIN workers : worker_finish(k)
    \/ update_processing_progress
    \/ update_processing_result

SpecJob == JobInit /\ [][JobNext]_vars


\* ================================================== properties of the jobs
\* the step is a call of detect_silence_background or
\* remove_all_silence_background
SubmitStep ==
    \/ submitted' # "none" /\ submitted' # submitted
    \/ Len(workers') > Len(workers)

\* the result of the job the session waits for is still to be sent by its
\* worker, or is queued on the channel that result_rx receives from
ResultOnItsWay ==
    /\ result_rx \in DOMAIN workers
    /\ progress_rx = result_rx
    /\ workers[result_rx].pc = "scan" \/ workers[result_rx].result_q # <<>>

Running == { k \in DOMAIN workers : workers[k].pc = "scan" }

\* C11: in every reachable state of a session at most one background worker
\* thread is running (spawned, terminal result not yet sent).
C11_AtMostOneWorker == Cardinality(Running) <= 1

\* what a worker does after its terminal send: nothing; the result is sent in
\* the step that ends the thread, and no progress value follows it
OneTerminalSend ==
    \A k \in DOMAIN workers :
        /\ workers[k].pc = "done" =>
              /\ workers'[k].pc = "done"
              /\ Len(workers'[k].result_q) <= Len(workers[k].result_q)
              /\ Len(workers'[k].progress_q) <= Len(workers[k].progress_q)
        /\ Len(workers'[k].result_q) > Len(workers[k].result_q) =>
              workers[k].pc = "scan" /\ workers'[k].pc = "done"

\* update_processing applies the result of worker k in this step
Applies(k) == workers'[k].applied > workers[k].applied

\* the job of worker k is Done: its result was applied
Done(k) == workers[k].pc = "done" /\ workers[k].applied = 1

\* the result worker k has sent is queued on the channel result_rx receives from
Deliverable(k) == result_rx = k /\ Len(workers[k].result_q) = 1

\* C12: the worker of each accepted job sends one terminal result, after all of
\* its progress values; update_processing applies that result exactly once, and
\* in the step that applies it is_processing becomes false and both receivers
\* are cleared.
C12_OneResultAppliedOnce ==
    /\ [][OneTerminalSend]_vars
    /\ [][\A k \in DOMAIN workers :
            Applies(k) => (~is_processing' /\ progress_rx' = 0 /\ result_rx' = 0)]_vars
    /\ [](\A k \in DOMAIN workers :
            /\ Len(workers[k].result_q) <= 1
            /\ workers[k].applied <= 1
            /\ (workers[k].pc = "done" /\ ~Done(k)) => Deliverable(k))

\* ------------------------------------------------ the session, scheduled
\* a step of the thread of worker k
WorkerStep(k) == k \in DOMAIN workers /\ (worker_frame(k) \/ worker_finish(k))

\* every spawned thread keeps being scheduled until it returns, and eframe keeps
\* calling update (draw_ui requests a repaint while a file is loaded), so
\* update_processing keeps being called
JobFairness ==
    /\ \A k \in 1 .. MaxJobs : WF_vars(WorkerStep(k))
    /\ WF_vars(update_processing_progress)
    /\ WF_vars(update_processing_result)

SpecJobFair == JobInit /\ [][JobNext]_vars /\ JobFairness

\* C13: with the worker threads and update_processing scheduled fairly, a state
\* in which a job is being processed (is_processing is true and result_rx is the
\* receiver of that job) is eventually followed by a state in which that job's
\* result has been applied and is_processing is false.
C13_JobCompletes ==
    \A k \in 1 .. MaxJobs :
        (is_processing /\ result_rx = k)
            ~> (~is_processing /\ k \in DOMAIN workers /\ Done(k))

\* C14: update_processing never waits for a worker: whatever the workers have
\* done, the controller can make its next step, the poll of progress_rx when it
\* is between handlers and the poll of result_rx (after which update_processing
\* returns) when it is inside update_processing.
C14_ControllerNeverBlocked ==
    /\ ui_pc = "idle" => ENABLED update_processing_progress
    /\ ui_pc = "result" => ENABLED update_processing_result

\* the controller is inside update_processing, about to poll result_rx, while
\* the worker of the job is in the middle of its scan and has sent no result
C14_Witness ==
    /\ ui_pc = "result" /\ is_processing
    /\ result_rx \in DOMAIN workers
    /\ workers[result_rx].pc = "scan"
    /\ workers[result_rx].i > 0
    /\ workers[result_rx].result_q = <<>>

\* =========================================== properties of rejected inputs
\* the call returned without a panic and produced nothing: no interval and no
\* buffer
ProducedNothing(out) ==
    /\ ~out.panicked
    /\ out.silence_segments = <<>>
    /\ ~out.result_samples.some

\* C15: detection or removal on a buffer whose sample_rate is below 1000 Hz is
\* rejected: it does not panic (no division by zero) and produces no interval
\* and no buffer (stated for the non-empty buffers).
C15_LowSampleRateRejected ==
    (seg_out.called /\ seg_in.sample_rate < 1000 /\ seg_in.samples # <<>>)
        => ProducedNothing(seg_out)

\* --------------------------------- the segmenter on buffers with a cut frame
\* buffers whose sample count is not a multiple of the channel count: the scan
\* loops guard every read with i + ch < total_samples (app.rs), or read
\* samples[i + ch] unguarded (main.rs)
RaggedBuffers(values, channels, n) ==
    {s \in SeqsUpTo(values, n) : Len(s) % channels # 0}

RaggedJobs(op) ==
    UNION { { Job(s, c, r, t, m) :
                s \in RaggedBuffers(SampleValues, c, MaxLen), r \in SampleRates,
                t \in Thresholds,
                m \in IF op = "remove_silence" THEN MainMinSilenceLens
                      ELSE MinSilenceLens }
            : c \in ChannelCounts }

RaggedInit ==
    /\ seg_op \in SegOps
    /\ seg_in \in RaggedJobs(seg_op)
    /\ seg_out = NoOutput
    /\ seg_op2 = "none"
    /\ seg_out2 = NoOutput
    /\ RunIdle
    /\ SoundApp_new

SpecRagged == RaggedInit /\ [][SegNext]_vars

\* C16: detection or removal on a buffer whose sample count is not a multiple
\* of the channel count fails without scanning: it does not panic, reports no
\* interval and produces no output buffer.
C16_RaggedBufferRejected ==
    (seg_out.called /\ Len(seg_in.samples) % seg_in.channels # 0)
        => ProducedNothing(seg_out)

\* C17: on the empty buffer the detect worker returns an empty interval list
\* and the remove worker an empty interval list and an empty buffer, without a
\* panic, for every threshold and minimum duration.
C17_EmptyBuffer ==
    (seg_out.called /\ seg_op \in {"detect", "remove"} /\ seg_in.samples = <<>>) =>
        /\ ~seg_out.panicked
        /\ seg_out.silence_segments = <<>>
        /\ seg_op = "remove" => seg_out.result_samples = Some(<<>>)

\* ================================================================ playback
\* the session after load_file(f) on a new SoundApp
SessionLoaded(f) ==
    /\ raw_waveform = WaveformData_from_samples(f.samples)
    /\ processed_waveform = WaveformData_from_samples(f.samples)
    /\ spec = Some([channels |-> f.channels, sample_rate |-> f.sample_rate])
    /\ file_loaded = TRUE
    /\ processed_ready = FALSE
    /\ silence_threshold = [num |-> 1, den |-> 100]
    /\ min_silence_len = 1000
    /\ is_processing = FALSE
    /\ processing_progress = [num |-> 0, den |-> 1]
    /\ progress_rx = 0
    /\ result_rx = 0
    /\ workers = <<>>
    /\ ui_pc = "idle"
    /\ submitted = "none"
    /\ loads = 1

\* the session after load_file(f), the minimum-length slider set to 100 ms, a
\* remove job run to its end, and one update_processing that received the last
\* progress value and the result
SessionProcessed(f) ==
    LET job == Job(f.samples, f.channels, f.sample_rate, [num |-> 1, den |-> 100], 100)
        r   == remove_worker(job)
    IN  /\ raw_waveform = [samples_raw |-> f.samples,
                           silence_segments |-> r.silence_segments]
        /\ processed_waveform = [samples_raw |-> r.result_samples.value,
                                 silence_segments |-> <<>>]
        /\ spec = Some([channels |-> f.channels, sample_rate |-> f.sample_rate])
        /\ file_loaded = TRUE
        /\ processed_ready = TRUE
        /\ silence_threshold = [num |-> 1, den |-> 100]
        /\ min_silence_len = 100
        /\ is_processing = FALSE
        /\ processing_progress = [num |-> Len(f.samples) - f.channels,
                                  den |-> Len(f.samples)]
        /\ progress_rx = 0
        /\ result_rx = 0
        /\ workers = <<[mode |-> "remove", job |-> Job(<<>>, 1, 0, [num |-> 0, den |-> 1], 0),
                        i |-> 0, st |-> remove_locals, pc |-> "done",
                        progress_q |-> <<>>, result_q |-> <<>>, applied |-> 1,
                        source |-> f.samples]>>
        /\ ui_pc = "idle"
        /\ submitted = "none"
        /\ loads = 1

\* the session after load_file(f), a remove job run to its end with the
\* minimum-length slider where it stands after SoundApp::new (1000 ms), and one
\* update_processing that received the last progress value and the result
SessionProcessedDefault(f) ==
    LET job == Job(f.samples, f.channels, f.sample_rate, [num |-> 1, den |-> 100], 1000)
        r   == remove_worker(job)
    IN  /\ raw_waveform = [samples_raw |-> f.samples,
                           silence_segments |-> r.silence_segments]
        /\ processed_waveform = [samples_raw |-> r.result_samples.value,
                                 silence_segments |-> <<>>]
        /\ spec = Some([channels |-> f.channels, sample_rate |-> f.sample_rate])
        /\ file_loaded = TRUE
        /\ processed_ready = TRUE
        /\ silence_threshold = [num |-> 1, den |-> 100]
        /\ min_silence_len = 1000
        /\ is_processing = FALSE
        /\ processing_progress = [num |-> Len(f.samples) - f.channels,
                                  den |-> Len(f.samples)]
        /\ progress_rx = 0
        /\ result_rx = 0
        /\ workers = <<[mode |-> "remove", job |-> Job(<<>>, 1, 0, [num |-> 0, den |-> 1], 0),
                        i |-> 0, st |-> remove_locals, pc |-> "done",
                        progress_q |-> <<>>, result_q |-> <<>>, applied |-> 1,
                        source |-> f.samples]>>
        /\ ui_pc = "idle"
        /\ submitted = "none"
        /\ loads = 1

\* bound: play_samples calls (streams built) in one behaviour
MaxStreams == 3
\* bound: completion signals one stream sends
MaxSignals == 2

\* data.len() of a callback, in frames
CallbackFrames == {1, 2}

\* PlaybackSource: Raw, Processed
PlaybackSources == {"raw", "processed"}

other(b) == IF b = "raw" THEN "processed" ELSE "raw"

\* the WaveformData of a source (raw_samples_raw / processed_samples_raw in main.rs)
waveform(b) == IF b = "raw" THEN raw_waveform ELSE processed_waveform

\* the field that holds the stream of a source: one per WaveformData in
\* app.rs, the single playing_stream in main.rs
slot(b) == IF play_variant = "main" THEN "main" ELSE b

\* a stream left as it is where it should be paused
stream_not_paused(strs, id) == strs

\* stream.pause() on the stream with this id; `if let Some(stream)` skips None
stream_pause(strs, id) == IF id = 0 THEN strs ELSE [strs EXCEPT ![id].state = "paused"]

\* stream.play()
stream_play(strs, id) == IF id = 0 THEN strs ELSE [strs EXCEPT ![id].state = "playing"]

\* a stream left alive where its last Arc should be dropped
stream_not_dropped(strs, id) == strs

\* the last Arc of the stream is dropped: the stream is destroyed
stream_drop(strs, id) == IF id = 0 THEN strs ELSE [strs EXCEPT ![id].state = "dropped"]

\* the guard of play_original / play_processed
can_play(b) ==
    /\ file_loaded /\ spec.some
    /\ (play_variant = "app" /\ b = "processed") => processed_ready

\* play_original / play_processed up to the reset of the cursor in
\* play_samples: app.rs pauses the stream of the other source, the samples are
\* cloned, the cursor is set to 0. tx: whether stop_tx is Some.
play_start(b, tx) ==
    /\ play_pc.at = "idle" /\ ui_pc = "idle"
    /\ Len(streams) < MaxStreams
    /\ can_play(b)
    /\ streams' = IF play_variant = "app"
                  THEN stream_pause(streams, playing_stream[other(b)])
                  ELSE streams
    /\ current_idx' = [current_idx EXCEPT ![b] = 0]
    /\ play_pc' = [at |-> "build", buffer |-> b, samples |-> waveform(b).samples_raw,
                   stop_tx |-> tx]
    /\ UNCHANGED <<play_variant, playing_stream, seg_vars, run_vars, job_vars>>

\* the audio thread of a stream between two invocations of its callback
NotInCallback == [running |-> FALSE, left |-> 0, written |-> 0, all_played |-> FALSE]

\* play_samples: build_output_stream and stream.play(); the new stream's
\* callback can fire from here on. first is the cursor value at which the
\* stream's first callback starts (-1 before it), signals the number of
\* stop_tx.send calls of its callback, cb the position of the audio thread
\* inside the callback.
play_build ==
    /\ play_pc.at = "build"
    /\ streams' = Append(streams,
                         [buffer |-> play_pc.buffer, samples |-> play_pc.samples,
                          state |-> "playing", stop_tx |-> play_pc.stop_tx,
                          signals |-> 0, first |-> -1, cb |-> NotInCallback])
    /\ play_pc' = [at |-> "store", buffer |-> play_pc.buffer, new |-> Len(streams) + 1]
    /\ UNCHANGED <<play_variant, playing_stream, current_idx, seg_vars, run_vars, job_vars>>

\* play_samples: the new stream is stored in the field, which drops the stream
\* the field held
play_store ==
    /\ play_pc.at = "store"
    /\ streams' = stream_drop(streams, playing_stream[slot(play_pc.buffer)])
    /\ playing_stream' = [playing_stream EXCEPT ![slot(play_pc.buffer)] = play_pc.new]
    /\ play_pc' = [at |-> "idle"]
    /\ UNCHANGED <<play_variant, current_idx, seg_vars, run_vars, job_vars>>

\* the locals of one callback invocation: idx is the locked cursor, data the
\* slots written so far (f32 values as the pairs num/den); panicked records an
\* index past the end of samples
callback_locals(idx) ==
    [idx |-> idx, data |-> <<>>, all_played |-> FALSE, panicked |-> FALSE]

\* samples[*idx] as f32 / i16::MAX as f32
slot_sample(st, samples) ==
    IF st.idx < Len(samples)
    THEN [st EXCEPT !.data = Append(@, [num |-> samples[st.idx + 1], den |-> I16_MAX]),
                    !.idx = @ + 1]
    ELSE [st EXCEPT !.panicked = TRUE]

\* the body of the inner loop, for one slot of data
callback_slot(st, samples, sample_len) ==
    IF st.panicked THEN st
    ELSE IF st.idx < sample_len
    THEN slot_sample(st, samples)
    ELSE [st EXCEPT !.data = Append(@, [num |-> 0, den |-> 1]), !.all_played = TRUE]

\* the two loops over data: n slots in order
RECURSIVE callback_loop(_, _, _, _)
callback_loop(st, samples, sample_len, n) ==
    IF n = 0 THEN st
    ELSE callback_loop(callback_slot(st, samples, sample_len), samples, sample_len, n - 1)

\* what one invocation of the callback of stream s does with data of `frames`
\* frames, the cursor being where it is now
callback_run(s, frames) ==
    callback_loop(callback_locals(current_idx[streams[s].buffer]), streams[s].samples,
                  Len(streams[s].samples), frames * spec.value.channels)

\* one invocation of the output callback of stream s, with data of `frames`
\* frames: under the cursor lock, each slot takes the sample at the cursor and
\* advances it, or takes 0.0 once the cursor is at sample_len (all_played);
\* audio.rs then sends on stop_tx when all_played and the cursor is at the end
callback(s, frames) ==
    LET st         == streams[s]
        sample_len == Len(st.samples)
        idx        == current_idx[st.buffer]
        r          == callback_run(s, frames)
        signal     == /\ play_variant = "app"
                      /\ r.all_played /\ r.idx >= sample_len
                      /\ st.stop_tx
    IN  /\ st.state = "playing"
        /\ signal => st.signals < MaxSignals
        /\ current_idx' = [current_idx EXCEPT ![st.buffer] = r.idx]
        /\ streams' = [streams EXCEPT ![s].signals = IF signal THEN @ + 1 ELSE @,
                                      ![s].first = IF @ = -1 THEN idx ELSE @]
        /\ UNCHANGED <<play_variant, playing_stream, play_pc, seg_vars, run_vars, job_vars>>

\* pause_original / pause_processed (app.rs)
pause_source(b) ==
    /\ play_variant = "app" /\ play_pc.at = "idle" /\ ui_pc = "idle"
    /\ streams' = stream_pause(streams, playing_stream[b])
    /\ UNCHANGED <<play_variant, playing_stream, current_idx, play_pc,
                   seg_vars, run_vars, job_vars>>

\* a resume that rewinds: the source's stream is played from index 0
resume_source_from_zero(b) ==
    /\ play_variant = "app" /\ play_pc.at = "idle" /\ ui_pc = "idle"
    /\ streams' = stream_play(stream_pause(streams, playing_stream[other(b)]),
                              playing_stream[b])
    /\ current_idx' = [current_idx EXCEPT ![b] = 0]
    /\ UNCHANGED <<play_variant, playing_stream, play_pc, seg_vars, run_vars, job_vars>>

\* resume_original / resume_processed (app.rs): the other source's stream is
\* paused, then this source's stream is played
resume_source(b) ==
    /\ play_variant = "app" /\ play_pc.at = "idle" /\ ui_pc = "idle"
    /\ streams' = stream_play(stream_pause(streams, playing_stream[other(b)]),
                              playing_stream[b])
    /\ UNCHANGED <<play_variant, playing_stream, current_idx, play_pc,
                   seg_vars, run_vars, job_vars>>

\* stop_original / stop_processed (app.rs)
stop_source(b) ==
    /\ play_variant = "app" /\ play_pc.at = "idle" /\ ui_pc = "idle"
    /\ streams' = stream_drop(streams, playing_stream[b])
    /\ playing_stream' = [playing_stream EXCEPT ![b] = 0]
    /\ current_idx' = [current_idx EXCEPT ![b] = 0]
    /\ UNCHANGED <<play_variant, play_pc, seg_vars, run_vars, job_vars>>

\* stop_playback (main.rs)
stop_playback ==
    /\ play_variant = "main" /\ play_pc.at = "idle" /\ ui_pc = "idle"
    /\ streams' = stream_drop(streams, playing_stream.main)
    /\ playing_stream' = [playing_stream EXCEPT !.main = 0]
    /\ current_idx' = [raw |-> 0, processed |-> 0]
    /\ UNCHANGED <<play_variant, play_pc, seg_vars, run_vars, job_vars>>

\* the sample index a click on a waveform gives: any usize, here up to past
\* the end of the longest buffer
SeekIndices == 0 .. MaxLen

\* an index left as it is where it should be clamped
min_unclamped(a, b) == a

\* usize::min
min(a, b) == IF a < b THEN a ELSE b

\* jump_to_position (app.rs): is_original selects the WaveformData b
jump_to_position(sample_idx, b) ==
    /\ play_variant = "app" /\ play_pc.at = "idle" /\ ui_pc = "idle"
    /\ current_idx' = [current_idx EXCEPT
                          ![b] = min(sample_idx, Len(waveform(b).samples_raw))]
    /\ UNCHANGED <<play_variant, playing_stream, streams, play_pc,
                   seg_vars, run_vars, job_vars>>

\* whether play_samples is given a stop_tx: main.rs has none
StopTx == IF play_variant = "main" THEN {FALSE} ELSE BOOLEAN

play_original == \E tx \in StopTx : play_start("raw", tx)
play_processed == \E tx \in StopTx : play_start("processed", tx)
pause_original == pause_source("raw")
pause_processed == pause_source("processed")
resume_original == resume_source("raw")
resume_processed == resume_source("processed")
stop_original == stop_source("raw")
stop_processed == stop_source("processed")

\* a file is loaded (and, for app.rs, possibly processed); nothing plays
PlayInit ==
    /\ play_variant \in {"app", "main"}
    /\ NoPlayback
    /\ \E f \in Files :
          \/ SessionLoaded(f)
          \/ play_variant = "app" /\ SessionProcessed(f)
    /\ RunIdle
    /\ ScenarioIdle

PlayNext ==
    \/ play_original
    \/ play_processed
    \/ play_build
    \/ play_store
    \/ \E s \in DOMAIN streams, frames \in CallbackFrames : callback(s, frames)
    \/ pause_original
    \/ pause_processed
    \/ resume_original
    \/ resume_processed
    \/ stop_original
    \/ stop_processed
    \/ stop_playback

SpecPlay == PlayInit /\ [][PlayNext]_vars

\* ------------------------------------------------- playback with seeking
\* bound: play_samples calls in one behaviour with seeking
MaxSeekStreams == 2

\* the handlers of playback with the clicks on the waveforms; play_samples is
\* called without a stop_tx, as app.rs and main.rs call it
SeekNext ==
    \/ \E b \in PlaybackSources : Len(streams) < MaxSeekStreams /\ play_start(b, FALSE)
    \/ play_build
    \/ play_store
    \/ \E s \in DOMAIN streams, frames \in CallbackFrames : callback(s, frames)
    \/ \E b \in PlaybackSources : pause_source(b)
    \/ \E b \in PlaybackSources : resume_source(b)
    \/ \E b \in PlaybackSources : stop_source(b)
    \/ stop_playback
    \/ \E n \in SeekIndices, b \in PlaybackSources : jump_to_position(n, b)

SpecSeek == PlayInit /\ [][SeekNext]_vars

\* ------------------------------------------------- properties of playback
\* stream s sends a completion signal in this step
Signals(s) == streams'[s].signals > streams[s].signals

\* the cursor of stream s is at the end of the buffer the stream plays
AtEnd(s) == current_idx[streams[s].buffer] >= Len(streams[s].samples)

\* C18: the render callback signals completion at most once per natural end of
\* playback: a callback that starts with the cursor already at the end of the
\* buffer, in a stream that has already signalled, sends no further signal.
C18_OneCompletionSignal ==
    [][\A s \in DOMAIN streams : Signals(s) => ~(streams[s].signals >= 1 /\ AtEnd(s))]_vars

\* the sources that have a stream in the playing (callback-firing) state
PlayingSources == { streams[s].buffer : s \in { x \in DOMAIN streams : streams[x].state = "playing" } }

\* C19: under any sequence of play, pause, resume and stop on the original and
\* the processed buffer (app.rs), the streams of at most one of the two
\* buffers are in the playing state.
C19_OnePlayingSource ==
    play_variant = "app" => Cardinality(PlayingSources) <= 1

\* the original was playing and has rendered, then the processed buffer was
\* started: its stream plays and the original's stream is held paused
C19_Witness ==
    /\ play_variant = "app" /\ play_pc.at = "idle"
    /\ playing_stream.raw # 0 /\ playing_stream.processed # 0
    /\ streams[playing_stream.raw].state = "paused"
    /\ streams[playing_stream.raw].first # -1
    /\ streams[playing_stream.processed].state = "playing"

\* C20: play_samples resets the cursor of the buffer to 0 and the stream it
\* starts renders from there: the first callback of every newly started stream
\* starts at index 0, whatever the state of the buffer's previous stream.
C20_StartRendersFromZero ==
    \A s \in DOMAIN streams : streams[s].first # -1 => streams[s].first = 0

\* ------------------------------------------- properties of stop, pause, seek
\* the field of source b holds a stream of b
Held(b) ==
    /\ playing_stream[slot(b)] # 0
    /\ streams[playing_stream[slot(b)]].buffer = b

\* play_samples is under way for source b
Starting(b) == play_pc.at # "idle" /\ play_pc.buffer = b

\* source b is stopped: no stream of it is held and none is being started
Stopped(b) == ~Held(b) /\ ~Starting(b)

\* this step is stop_original / stop_processed / stop_playback for source b
StopStep(b) == IF play_variant = "app" THEN stop_source(b) ELSE stop_playback

\* this step starts source b or seeks in it
StartOrSeekStep(b) ==
    \/ \E tx \in BOOLEAN : play_start(b, tx)
    \/ \E n \in SeekIndices : jump_to_position(n, b)

\* the streams of source b whose callback can fire
Rendering(b) ==
    { s \in DOMAIN streams : streams[s].buffer = b /\ streams[s].state = "playing" }

\* C21: stop releases the output stream of the buffer and resets its cursor
\* to 0; while the buffer is stopped no stream of it renders, and the only
\* steps that change its cursor are the next start, a seek, and a further stop
\* (which sets it to 0 again).
C21_StopReleasesAndResets ==
    /\ [][\A b \in PlaybackSources :
             StopStep(b) => /\ playing_stream'[slot(b)] = 0
                            /\ current_idx'[b] = 0
                            /\ Stopped(b)']_vars
    /\ [](\A b \in PlaybackSources : Stopped(b) => Rendering(b) = {})
    /\ [][\A b \in PlaybackSources :
             (Stopped(b) /\ current_idx'[b] # current_idx[b])
                 => StartOrSeekStep(b) \/ (StopStep(b) /\ current_idx'[b] = 0)]_vars

\* a source was started, has rendered part of its buffer and was then stopped:
\* its stream is destroyed, its field empty and its cursor 0
C21_Witness ==
    \E b \in PlaybackSources :
        /\ Stopped(b) /\ playing_stream[slot(b)] = 0 /\ current_idx[b] = 0
        /\ \E s \in DOMAIN streams :
              /\ streams[s].buffer = b /\ s = Len(streams)
              /\ streams[s].state = "dropped" /\ streams[s].first = 0

\* source b is paused: its field holds a stream that is paused
Paused(b) == Held(b) /\ ~Starting(b) /\ streams[playing_stream[slot(b)]].state = "paused"

\* this step is stop_original / stop_processed, a start or a seek on source b
StopStartOrSeekStep(b) == StopStep(b) \/ StartOrSeekStep(b)

\* C22: pause and resume (app.rs) leave the cursor as it is: a pause step does
\* not change the cursor and leaves the source paused; while the source is
\* paused none of its streams renders and its cursor changes only by a stop, a
\* start or a seek; a resume step does not change the cursor and leaves the
\* held stream playing, so that its next callback renders from that index.
C22_PauseResumeKeepCursor ==
    /\ [][\A b \in PlaybackSources :
             (pause_source(b) \/ resume_source(b)) => current_idx' = current_idx]_vars
    /\ [][\A b \in PlaybackSources :
             (pause_source(b) /\ Held(b)) => Paused(b)']_vars
    /\ [](\A b \in PlaybackSources : Paused(b) => Rendering(b) = {})
    /\ [][\A b \in PlaybackSources :
             (Paused(b) /\ current_idx'[b] # current_idx[b]) => StopStartOrSeekStep(b)]_vars
    /\ [][\A b \in PlaybackSources :
             (resume_source(b) /\ Held(b)) => playing_stream[b] \in Rendering(b)']_vars

\* the original was started and rendered part of its buffer, was paused by the
\* start of the processed buffer, and was resumed: its stream plays again with
\* the cursor inside the buffer, and the processed stream is held paused
C22_Witness ==
    /\ play_variant = "app" /\ play_pc.at = "idle"
    /\ Held("raw") /\ Held("processed")
    /\ playing_stream.raw < playing_stream.processed
    /\ streams[playing_stream.raw].state = "playing"
    /\ streams[playing_stream.raw].first = 0
    /\ streams[playing_stream.processed].state = "paused"
    /\ current_idx.raw > 0 /\ current_idx.raw < Len(streams[playing_stream.raw].samples)

\* what pause_* / resume_* report to their caller: the functions return (),
\* and with playing_stream None the body of `if let Some(stream)` is skipped
handler_returns(b) == "unit"

\* C23: pause or resume on a buffer whose stream handle is absent (never
\* started, or stopped) fails with DeviceError.
C23_AbsentHandleFails ==
    [][\A b \in PlaybackSources :
          ((pause_source(b) \/ resume_source(b)) /\ playing_stream[b] = 0)
              => handler_returns(b) = "DeviceError"]_vars

\* C24: a seek (jump_to_position) with any index n sets the cursor of the
\* buffer to n, or to the length of the buffer when n is beyond it; the cursor
\* is left between 0 and the length of the buffer, whether the buffer is
\* playing, paused or stopped.
C24_SeekClamps ==
    [][\A n \in SeekIndices, b \in PlaybackSources :
          jump_to_position(n, b) =>
              LET len == Len(waveform(b).samples_raw)
              IN  /\ current_idx'[b] = IF n > len THEN len ELSE n
                  /\ current_idx'[b] >= 0
                  /\ current_idx'[b] <= len]_vars

\* a seek beyond the end on a buffer that was never started: no stream was
\* built, and the cursor of a non-empty buffer stands at its length
C24_Witness ==
    \E b \in PlaybackSources :
        /\ streams = <<>> /\ play_pc.at = "idle"
        /\ waveform(b).samples_raw # <<>>
        /\ Len(waveform(b).samples_raw) < MaxLen
        /\ current_idx[b] = Len(waveform(b).samples_raw)

\* ------------------------------------------------ properties of the callback
\* the streams that exist: built and not yet destroyed
Alive == { s \in DOMAIN streams : streams[s].state # "dropped" }

\* the cursor before slot j (1-based) of a callback that starts at idx on a
\* buffer of length len
CursorAtSlot(idx, len, j) ==
    IF idx >= len THEN idx
    ELSE IF idx + (j - 1) < len THEN idx + (j - 1) ELSE len

\* slot j of the rendered data is what the rule prescribes
SlotAsPrescribed(r, samples, idx, j) ==
    LET c == CursorAtSlot(idx, Len(samples), j)
    IN  IF c < Len(samples)
        THEN r.data[j].num * I16_MAX = samples[c + 1] * r.data[j].den
        ELSE r.data[j].num = 0

\* a callback of stream s with this many frames renders slot by slot as
\* prescribed, leaves the cursor where the rule leaves it, and reads no index
\* outside the samples
RendersAsPrescribed(s, frames) ==
    LET samples == streams[s].samples
        idx     == current_idx[streams[s].buffer]
        n       == frames * spec.value.channels
        r       == callback_run(s, frames)
    IN  /\ ~r.panicked
        /\ Len(r.data) = n
        /\ \A j \in 1 .. n : SlotAsPrescribed(r, samples, idx, j)
        /\ r.idx = CursorAtSlot(idx, Len(samples), n + 1)

\* C25: the render callback fills each output slot in order with the sample
\* at the cursor (divided by 32767), advancing the cursor by one, while the
\* cursor is below the length of the stream's buffer, and with 0 otherwise,
\* leaving the cursor unchanged; it never reads outside the buffer, and the
\* cursor never exceeds the length of the buffer a stream was started with.
C25_RenderCallback ==
    \A s \in Alive :
        /\ \A frames \in CallbackFrames : RendersAsPrescribed(s, frames)
        /\ current_idx[streams[s].buffer] <= Len(streams[s].samples)

\* ================================== the session: jobs, loads and playback
\* bound: play_samples calls in one behaviour of the whole session
MaxSessionStreams == 1

\* the positions of the minimum-length slider used in the whole session
SessionMinSilenceLens == {100, 1000}

\* the clicks on the waveforms used in the whole session: on the left edge
\* and past the end of the longest buffer
SessionSeekIndices == {0, MaxLen}

\* a file is loaded in a SoundApp of app.rs and a first remove job has been
\* applied; nothing plays, no job runs
SessionInit ==
    /\ play_variant = "app"
    /\ NoPlayback
    /\ \E f \in Files : SessionProcessed(f) \/ SessionProcessedDefault(f)
    /\ RunIdle
    /\ ScenarioIdle

\* the handlers of draw_ui, update_processing, the worker threads and the
\* audio callbacks
SessionNext ==
    \/ \E f \in Files : load_file(f)
    \/ \E m \in SessionMinSilenceLens : set_sliders([num |-> 1, den |-> 100], m)
    \/ detect_silence_background
    \/ remove_all_silence_background
    \/ \E k \in DOMAIN workers : worker_frame(k)
    \/ \E k \in DOMAIN workers : worker_finish(k)
    \/ update_processing_progress
    \/ update_processing_result
    \/ \E b \in PlaybackSources : Len(streams) < MaxSessionStreams /\ play_start(b, FALSE)
    \/ play_build
    \/ play_store
    \/ \E s \in DOMAIN streams, frames \in CallbackFrames : callback(s, frames)
    \/ \E b \in PlaybackSources : pause_source(b)
    \/ \E b \in PlaybackSources : resume_source(b)
    \/ \E b \in PlaybackSources : stop_source(b)
    \/ \E n \in SessionSeekIndices, b \in PlaybackSources : jump_to_position(n, b)

SpecSession == SessionInit /\ [][SessionNext]_vars

\* ===================================== the callback under the cursor lock
\* the streams whose callback holds the MutexGuard of the cursor of source b
LockHolders(b) ==
    { s \in DOMAIN streams : streams[s].buffer = b /\ streams[s].cb.running }

\* current_idx.lock() of source b returns
LockFree(b) == LockHolders(b) = {}

\* the callback of stream s is invoked with data of `frames` frames and takes
\* the lock: `let mut idx = current_idx.lock().unwrap()`
callback_lock(s, frames) ==
    /\ streams[s].state = "playing"
    /\ LockFree(streams[s].buffer)
    /\ streams' = [streams EXCEPT
                      ![s].cb = [running |-> TRUE, left |-> frames * spec.value.channels,
                                 written |-> 0, all_played |-> FALSE],
                      ![s].first = IF @ = -1 THEN current_idx[streams[s].buffer] ELSE @]
    /\ UNCHANGED <<play_variant, playing_stream, current_idx, play_pc,
                   seg_vars, run_vars, job_vars>>

\* one slot of data is written, through the guard
callback_copy(s) ==
    LET st == streams[s]
        r  == callback_slot([callback_locals(current_idx[st.buffer]) EXCEPT
                                !.all_played = st.cb.all_played],
                            st.samples, Len(st.samples))
    IN  /\ st.cb.running /\ st.cb.left > 0
        /\ current_idx' = [current_idx EXCEPT ![st.buffer] = r.idx]
        /\ streams' = [streams EXCEPT ![s].cb.left = @ - 1, ![s].cb.written = @ + 1,
                                      ![s].cb.all_played = r.all_played]
        /\ UNCHANGED <<play_variant, playing_stream, play_pc, seg_vars, run_vars, job_vars>>

\* after the loops: the send on stop_tx, then the closure returns and the
\* guard is dropped
callback_unlock(s) ==
    LET st     == streams[s]
        signal == /\ play_variant = "app"
                  /\ st.cb.all_played /\ current_idx[st.buffer] >= Len(st.samples)
                  /\ st.stop_tx
    IN  /\ st.cb.running /\ st.cb.left = 0
        /\ signal => st.signals < MaxSignals
        /\ streams' = [streams EXCEPT ![s].cb = NotInCallback,
                                      ![s].signals = IF signal THEN @ + 1 ELSE @]
        /\ UNCHANGED <<play_variant, playing_stream, current_idx, play_pc,
                       seg_vars, run_vars, job_vars>>

\* the handlers that lock a cursor, or drop the stream whose callback holds
\* it, wait until the callback has returned
LockNext ==
    \/ \E b \in PlaybackSources :
          Len(streams) < MaxSessionStreams /\ LockFree(b) /\ play_start(b, FALSE)
    \/ play_build
    \/ play_pc.at = "store" /\ LockFree(play_pc.buffer) /\ play_store
    \/ \E s \in DOMAIN streams, frames \in CallbackFrames : callback_lock(s, frames)
    \/ \E s \in DOMAIN streams : callback_copy(s)
    \/ \E s \in DOMAIN streams : callback_unlock(s)
    \/ \E b \in PlaybackSources : LockFree(b) /\ stop_source(b)
    \/ LockFree("raw") /\ LockFree("processed") /\ stop_playback
    \/ \E n \in SessionSeekIndices, b \in PlaybackSources :
          LockFree(b) /\ jump_to_position(n, b)

SpecLock == PlayInit /\ [][LockNext]_vars

\* C26: the render callback holds the cursor lock only to read, advance and
\* write the integer, never while it copies samples into the output slots: no
\* callback holds the lock with slots already written and slots still to
\* write.
C26_LockNotHeldAcrossCopy ==
    \A s \in DOMAIN streams :
        streams[s].cb.running => ~(streams[s].cb.written > 0 /\ streams[s].cb.left > 0)

\* ======================================= properties of jobs and the buffers
\* the job whose receivers the session holds is a detect job
DetectCurrent == result_rx # 0 /\ workers[result_rx].mode = "detect"

\* this step is a step of the detect job: its submission, a step of its
\* worker thread, or an update_processing that receives from its channels
DetectJobStep ==
    \/ detect_silence_background /\ submitted' = "spawned"
    \/ \E k \in DOMAIN workers :
          workers[k].mode = "detect" /\ (worker_frame(k) \/ worker_finish(k))
    \/ DetectCurrent /\ (update_processing_progress \/ update_processing_result)

\* what a job may change of the session: the interval list, the progress
\* value and the job state (is_processing and the two receivers)
OnlyJobStateChanges ==
    /\ raw_waveform'.samples_raw = raw_waveform.samples_raw
    /\ UNCHANGED <<processed_waveform, processed_ready, spec, file_loaded,
                   silence_threshold, min_silence_len>>

\* C27: a detect-only job, from its submission to the application of its
\* result, leaves the processed buffer and processed_ready as they are: its
\* steps change only the interval list, the progress value and the job state.
C27_DetectLeavesProcessed ==
    [][DetectJobStep => OnlyJobStateChanges]_vars

\* a remove job and then a detect job have been applied: the intervals are
\* those of the detect job, the processed buffer is still the shorter one the
\* remove job produced
C27_Witness ==
    /\ Len(workers) = 2
    /\ workers[1].mode = "remove" /\ workers[1].applied = 1
    /\ workers[2].mode = "detect" /\ workers[2].applied = 1
    /\ processed_ready
    /\ Len(processed_waveform.samples_raw) < Len(raw_waveform.samples_raw)
    /\ raw_waveform.silence_segments # <<>>

\* C28: the original buffer is immutable after load: a step that changes the
\* samples of the original buffer is a load_file; no job submission, worker
\* step, update_processing, play, pause, resume, stop or seek changes them.
C28_OriginalImmutable ==
    [][raw_waveform'.samples_raw # raw_waveform.samples_raw
          => \E f \in Files : load_file(f)]_vars

\* with no further load, a second remove job has been applied, giving a
\* processed buffer shorter than the original, and the original has been
\* played from its start: the original still is the buffer that was loaded
C28_Witness ==
    /\ loads = 1 /\ Len(workers) = 2
    /\ workers[2].mode = "remove" /\ workers[2].applied = 1
    /\ Len(processed_waveform.samples_raw) < Len(raw_waveform.samples_raw)
    /\ \E s \in DOMAIN streams : streams[s].buffer = "raw" /\ streams[s].first = 0
    /\ current_idx.raw > 0
    /\ raw_waveform.samples_raw = workers[1].source

\* C29: every job result that update_processing applies was computed from
\* the original buffer that is loaded when it is applied: the samples the
\* job's worker was given are the samples of the current original buffer.
C29_AppliedResultIsCurrent ==
    [][\A k \in DOMAIN workers :
          Applies(k) => workers[k].source = raw_waveform.samples_raw]_vars

\* C30: in every reachable state the playback cursor of each buffer is at
\* most the length of the current sample array of that buffer, under every
\* interleaving of start, callbacks, seek, stop, load and job completion.
C30_CursorWithinBuffer ==
    \A b \in PlaybackSources : current_idx[b] <= Len(waveform(b).samples_raw)

\* ============================================ properties of the shared cursor
\* C31: the cursor of a buffer has a single render-callback writer: at any time
\* at most one stream whose callback can fire is bound to it, also while
\* play_samples replaces a stream of the same buffer that is already playing.
C31_SingleCallbackWriter ==
    \A b \in PlaybackSources : Cardinality(Rendering(b)) <= 1

\* the buffer of source b consists of whole frames
WholeFrames(b) == Len(waveform(b).samples_raw) % spec.value.channels = 0

\* C32: for a buffer whose length is a multiple of the channel count, the
\* cursor is a multiple of the channel count whenever no callback is in
\* execution, after any sequence of start, callbacks, seek, pause, resume and
\* stop.
C32_CursorFrameAligned ==
    \A b \in PlaybackSources :
        WholeFrames(b) => current_idx[b] % spec.value.channels = 0

====
